---- MODULE Spec2Model ----
(***************************************************************************)
(* Model of the request-execution engine of ksinica/form3api:              *)
(*   - backOff / sleepContext            (src/unnamed/part_001)            *)
(*   - httpDoRetry / parseError / httpDo (src/unnamed/part_002)            *)
(*   - the error taxonomy                (src/errors.go)                   *)
(*   - the wire structs                  (src/unnamed/part_003)            *)
(* One behaviour of Spec is one call of api.Create, api.Fetch or           *)
(* api.Delete, together with its environment: the transport answering      *)
(* each send, the timer firing, and the context being cancelled.           *)
(* SpecBackoff is backOff called directly with an attempt number, as       *)
(* TestBackOff does.                                                       *)
(***************************************************************************)
EXTENDS Integers, Sequences, FiniteSets, TLC

VARIABLES
    pc,            \* position of the calling goroutine inside the call
    op,            \* "Create" | "Fetch" | "Delete" | "none"
    retryCount,    \* api.retryCount
    i,             \* httpDoRetry's loop variable (backOff's n)
    ctxErr,        \* ctx.Err(): "none" | "Canceled" | "DeadlineExceeded"
    timer,         \* the timer of the current sleepContext
    timerDur,      \* the duration backOff handed to the timer factory (int64 ns)
    resps,         \* every response the transport returned, with its body's state
    sends,         \* number of a.client.Do calls started
    sleepLog,      \* attempt indices backOff was called with
    dest,          \* the value behind httpDo's res pointer
    result,        \* what httpDo returned
    selectCase,    \* the case the select of the current sleepContext took
    cancelInSleep, \* the context was cancelled while a sleep had not completed
    reqBody,       \* what is left unread in httpDo's bytes.Buffer b, the request body
    presented,     \* what was left unread in it when each a.client.Do started
    recv,          \* the error e of a call e.Is(target)
    target,        \* the target of that call
    matched,       \* what e.Is(target) returned
    calls,         \* concurrent calls on one api value: the frame of each
    loopVar,       \* the loop variables i of the httpDoRetry frames
    randSource,    \* the state of math/rand's global source
    out            \* what Create, Fetch or Delete returned to its caller

\* the state outside a call of httpDo
outsideCall == <<recv, target, matched, calls, loopVar, randSource, out>>

vars == <<pc, op, retryCount, i, ctxErr, timer, timerDur, resps, sends,
          sleepLog, dest, result, selectCase, cancelInSleep, reqBody,
          presented, outsideCall>>

(***************************************************************************)
(* Bounds of the model.                                                    *)
(***************************************************************************)
\* largest api.retryCount a call is made with
MaxRetry == 3
\* largest api.retryCount of an api value used by concurrent calls
MaxSharedRetry == 2
\* number of calls running concurrently on one api value
MaxCalls == 2
\* largest attempt number backOff is called with directly
MaxAttemptN == 100
\* limbs of the scratch integers the backoff arithmetic is checked with
WideLimbs == 13

(***************************************************************************)
(* Program constants.                                                      *)
(***************************************************************************)
minBackOffMs == 100
backOffJitterMs == 100
\* math.Pow(1.5, n) * 500.0
backOffBaseMs == 500
\* time.Millisecond, in time.Duration's unit (ns), as 1000 * 1000
MilliFactor == 1000

(***************************************************************************)
(* Fixed-width integers.  TLC's integers are 32 bits wide, Go's int and    *)
(* time.Duration are 64: a number is a little-endian tuple of 16-bit       *)
(* limbs, an int64 is four limbs in two's complement.                      *)
(***************************************************************************)
Base == 2^16
Int64Limbs == 64 \div 16

RECURSIVE Zeros(_)
Zeros(w) == IF w = 0 THEN <<>> ELSE <<0>> \o Zeros(w - 1)

\* x is a natural below 2^31
FromNat(x, w) == <<x % Base, x \div Base>> \o Zeros(w - 2)

\* a mod Base^w, widened with zero limbs where a is shorter
Resize(a, w) ==
    IF Len(a) >= w THEN SubSeq(a, 1, w) ELSE a \o Zeros(w - Len(a))

RECURSIVE MulCarry(_, _, _, _)
MulCarry(a, c, k, carry) ==
    IF k > Len(a) THEN <<>>
    ELSE LET t == a[k] * c + carry
         IN  <<t % Base>> \o MulCarry(a, c, k + 1, t \div Base)

\* a * c mod Base^Len(a), for 0 <= c < 2^15
MulSmall(a, c) == MulCarry(a, c, 1, 0)

RECURSIVE AddCarry(_, _, _, _)
AddCarry(a, b, k, carry) ==
    IF k > Len(a) THEN <<>>
    ELSE LET t == a[k] + b[k] + carry
         IN  <<t % Base>> \o AddCarry(a, b, k + 1, t \div Base)

\* a + b mod Base^Len(a), for Len(a) = Len(b)
Add(a, b) == AddCarry(a, b, 1, 0)

\* -a mod Base^Len(a)
Neg(a) == Add([k \in 1..Len(a) |-> Base - 1 - a[k]], FromNat(1, Len(a)))

\* limb k of a, zero beyond its width
Limb(a, k) == IF k \in 1..Len(a) THEN a[k] ELSE 0

\* floor(a / 2^n)
ShiftRight(a, n) ==
    LET q == n \div 16
        r == n % 16
    IN  [k \in 1..Len(a) |->
           (Limb(a, k + q) \div 2^r + (Limb(a, k + q + 1) % 2^r) * 2^(16 - r))
             % Base]

\* a * 2^n mod Base^Len(a)
ShiftLeft(a, n) ==
    LET q == n \div 16
        r == n % 16
    IN  [k \in 1..Len(a) |->
           ((Limb(a, k - q) % 2^(16 - r)) * 2^r
              + Limb(a, k - q - 1) \div 2^(16 - r)) % Base]

\* bit n of a (bit 0 is the lowest)
Bit(a, n) == (Limb(a, n \div 16 + 1) \div 2^(n % 16)) % 2

RECURSIVE LessFrom(_, _, _)
LessFrom(a, b, k) ==
    IF k = 0 THEN FALSE
    ELSE IF a[k] # b[k] THEN a[k] < b[k]
    ELSE LessFrom(a, b, k - 1)

\* a < b as naturals, for Len(a) = Len(b)
Less(a, b) == LessFrom(a, b, Len(a))
LessEq(a, b) == ~Less(b, a)

\* an int in -2^31 .. 2^31 as an int64
Int64Of(x) ==
    IF x >= 0 THEN FromNat(x, Int64Limbs) ELSE Neg(FromNat(0 - x, Int64Limbs))

IsNeg64(a) == a[Int64Limbs] >= Base \div 2
MinInt64 == Zeros(Int64Limbs - 1) \o <<Base \div 2>>
MaxInt64 == [k \in 1..Int64Limbs |-> IF k = Int64Limbs THEN Base \div 2 - 1 ELSE Base - 1]

\* a < b as int64
Less64(a, b) ==
    IF IsNeg64(a) # IsNeg64(b) THEN IsNeg64(a) ELSE Less(a, b)

(***************************************************************************)
(* Backoff Policy: backOff (src/unnamed/part_001:74-78).                   *)
(***************************************************************************)
\* a * 3^n mod Base^Len(a)
RECURSIVE Pow3Times(_, _)
Pow3Times(a, n) ==
    IF n >= 9 THEN Pow3Times(MulSmall(a, 3^9), n - 9) ELSE MulSmall(a, 3^n)

\* math.Round(math.Pow(1.5, float64(n)) * 500.0) as a natural of WideLimbs
\* limbs: 500 * 3^n / 2^n rounded half away from zero.  The float64
\* computation is exact while 500 * 3^n fits 53 bits (n <= 29) and is off by
\* less than one millisecond wherever the result is below 2^53; above that
\* the duration conversion below has already wrapped.
RoundPowMs(n) ==
    LET num == Pow3Times(FromNat(backOffBaseMs, WideLimbs), n)
    IN  IF n = 0 THEN num
        ELSE Add(ShiftRight(num, n), FromNat(Bit(num, n - 1), WideLimbs))

\* the table of RoundPowMs, computed once
RoundPowMsTable == [n \in 0..MaxAttemptN |-> RoundPowMs(n)]

\* whether a natural of WideLimbs limbs fits an int64
FitsInt64(a) ==
    /\ \A k \in (Int64Limbs + 1)..Len(a) : a[k] = 0
    /\ a[Int64Limbs] < Base \div 2

\* int(f) for a float64 f >= 0 holding an integer: the value where it fits;
\* where it does not the Go specification leaves the result to the
\* implementation (amd64 yields the minimum int64, arm64 saturates).
FloatToInt(a) ==
    IF FitsInt64(a) THEN {Resize(a, Int64Limbs)} ELSE {MinInt64, MaxInt64}

\* rand.Intn(backOffJitterMs) - backOffJitterMs/2, for a draw r of rand.Intn
JitterMisscaled(r) == r - backOffJitterMs
Jitter(r) == r - backOffJitterMs \div 2

\* max(a, b) on int (part_001:67-72)
max(a, b) == IF Less64(b, a) THEN a ELSE b

\* time.Duration(d) * time.Millisecond: int64 multiplication, which wraps
ToDuration(d) == MulSmall(MulSmall(d, MilliFactor), MilliFactor)

\* the durations backOff(ctx, n) can hand to sleepContext when rand.Intn
\* draws r
backOffDurations(n, r) ==
    { ToDuration(max(Int64Of(minBackOffMs), Add(d, Int64Of(Jitter(r))))) :
        d \in FloatToInt(RoundPowMsTable[n]) }

\* the draws of rand.Intn(backOffJitterMs)
JitterDraws == 0..(backOffJitterMs - 1)

\* the table of backOffDurations, computed once
backOffTable ==
    [n \in 0..MaxAttemptN |-> [r \in JitterDraws |-> backOffDurations(n, r)]]

(***************************************************************************)
(* Wire format.  A JSON value is a tagged record; a response body is a     *)
(* named document with its size and the part of it a json.Decoder reads    *)
(* before it returns (both in read units).                                 *)
(***************************************************************************)
Str(s) == [t |-> "str", v |-> s]
Num(x) == [t |-> "num", v |-> x]
Obj(f) == [t |-> "obj", v |-> f]
Null == [t |-> "null", v |-> 0]

Bodies == {"generic", "genericPartial", "genericType", "forbidden", "data",
           "dataType", "null", "html", "truncated", "empty"}

\* syntax: whether the body starts with a complete JSON value
Doc(b) ==
    CASE b = "generic" ->
           [syntax |-> TRUE, size |-> 1, need |-> 1,
            val |-> Obj([error_message |-> Str("m1"), error_code |-> Str("c1")])]
      [] b = "genericPartial" ->
           [syntax |-> TRUE, size |-> 2, need |-> 1,
            val |-> Obj([error_message |-> Str("m2")])]
      [] b = "genericType" ->
           [syntax |-> TRUE, size |-> 1, need |-> 1,
            val |-> Obj([error_message |-> Num(7), error_code |-> Str("c3"),
                         error |-> Num(7), error_description |-> Str("d3")])]
      [] b = "forbidden" ->
           [syntax |-> TRUE, size |-> 1, need |-> 1,
            val |-> Obj([error |-> Str("e1"), error_description |-> Str("d1")])]
      [] b = "data" ->
           [syntax |-> TRUE, size |-> 3, need |-> 2,
            val |-> Obj([data |-> Obj([id |-> Str("id1"),
                                       organisation_id |-> Str("org1"),
                                       type |-> Str("accounts"),
                                       customer_id |-> Str("123")])])]
      [] b = "dataType" ->
           [syntax |-> TRUE, size |-> 2, need |-> 2,
            val |-> Obj([data |-> Obj([id |-> Num(5),
                                       type |-> Str("accounts")])])]
      [] b = "null" ->
           [syntax |-> TRUE, size |-> 1, need |-> 1, val |-> Null]
      [] b = "html" ->
           [syntax |-> FALSE, size |-> 3, need |-> 1, val |-> Null]
      [] b = "truncated" ->
           [syntax |-> FALSE, size |-> 2, need |-> 2, val |-> Null]
      [] b = "empty" ->
           [syntax |-> FALSE, size |-> 0, need |-> 0, val |-> Null]

\* encoding/json into a struct of string fields: a key that is present and
\* holds a string sets its field, null or an absent key leaves it, any other
\* type leaves it and makes Unmarshal fail after the remaining fields are
\* set; a value that is no object sets nothing and fails unless it is null.
UnmarshalStrings(val, into) ==
    IF val.t = "null" THEN [out |-> into, err |-> FALSE]
    ELSE IF val.t # "obj" THEN [out |-> into, err |-> TRUE]
    ELSE LET present == DOMAIN into \cap DOMAIN val.v
         IN  [out |-> [k \in DOMAIN into |->
                         IF k \in present /\ val.v[k].t = "str"
                         THEN val.v[k].v ELSE into[k]],
              err |-> \E k \in present : val.v[k].t \notin {"str", "null"}]

\* GenericError, ForbiddenError and AccountData (its string fields) at their
\* zero values (part_003:6-9, 14-17, 22-28)
GenericError == [error_message |-> "", error_code |-> ""]
ForbiddenError == [error |-> "", error_description |-> ""]
AccountData == [id |-> "", organisation_id |-> "", type |-> ""]

\* encoding/json into struct{ Data AccountData }
UnmarshalEnvelope(val, into) ==
    IF val.t = "null" THEN [out |-> into, err |-> FALSE]
    ELSE IF val.t # "obj" THEN [out |-> into, err |-> TRUE]
    ELSE IF "data" \in DOMAIN val.v
         THEN UnmarshalStrings(val.v["data"], into)
         ELSE [out |-> into, err |-> FALSE]

\* json.NewDecoder(resp.Body).Decode(&x): a body that does not start with a
\* complete JSON value fails before x is touched
DecodeStrings(b, into) ==
    IF Doc(b).syntax THEN UnmarshalStrings(Doc(b).val, into)
    ELSE [out |-> into, err |-> TRUE]

DecodeWithoutEnvelope(b, into) ==
    IF Doc(b).syntax THEN UnmarshalStrings(Doc(b).val, into)
    ELSE [out |-> into, err |-> TRUE]
DecodeEnvelope(b, into) ==
    IF Doc(b).syntax THEN UnmarshalEnvelope(Doc(b).val, into)
    ELSE [out |-> into, err |-> TRUE]

(***************************************************************************)
(* Errors (src/errors.go).  An error is a record of its kind and the       *)
(* detail its type carries.                                                *)
(***************************************************************************)
NoDetail == [status |-> 0, error_message |-> "", error_code |-> "",
             error |-> "", error_description |-> ""]
Err(kind) == [kind |-> kind] @@ NoDetail
Running == Err("running")
NilError == Err("nil")
ErrTooManyRetries == Err("too_many_retries")
ErrNotFound == Err("not_found")
\* the error of a.client.Do
TransportError == Err("transport")
\* the error of encoding/json
DecodeError == Err("decode")
\* ctx.Err()
ContextError(cause) == Err(cause)
newErrHttp(statusCode) == [Err("http") EXCEPT !.status = statusCode]
newErrBadRequest(e) ==
    [Err("bad_request") EXCEPT !.error_message = e.error_message,
                               !.error_code = e.error_code]
newErrConflict(e) ==
    [Err("conflict") EXCEPT !.error_message = e.error_message,
                            !.error_code = e.error_code]
newErrForbiden(e) ==
    [Err("forbidden") EXCEPT !.error = e.error,
                             !.error_description = e.error_description]

\* (34-37)
isSameGenericErrorSwapped(a, b) ==
    /\ (a.error_code = b.error_code \/ a.error_code = "")
    /\ (a.error_message = b.error_message \/ a.error_message = "")
isSameGenericError(a, b) ==
    /\ (a.error_code = b.error_code \/ b.error_code = "")
    /\ (a.error_message = b.error_message \/ b.error_message = "")

\* (89-92)
isSameForbiddenError(a, b) ==
    /\ (a.error = b.error \/ b.error = "")
    /\ (a.error_description = b.error_description \/ b.error_description = "")

\* t, ok := target.(*ErrBadRequest); if !ok { return false }   (52-58)
ErrBadRequestIs(e, t) ==
    IF t.kind # "bad_request" THEN FALSE ELSE isSameGenericError(e, t)

\* (70-76)
ErrConflictIs(e, t) ==
    IF t.kind # "conflict" THEN FALSE ELSE isSameGenericError(e, t)

\* (107-113)
ErrForbiddenIs(e, t) ==
    IF t.kind # "forbidden" THEN FALSE ELSE isSameForbiddenError(e, t)

\* e.Is(target) of the error types that have the method: the method of e's
\* dynamic type runs
Is(e, t) ==
    CASE e.kind = "bad_request" -> ErrBadRequestIs(e, t)
      [] e.kind = "conflict" -> ErrConflictIs(e, t)
      [] e.kind = "forbidden" -> ErrForbiddenIs(e, t)

\* the operation has not returned
NotReturned == [returned |-> FALSE, data |-> AccountData, err |-> Running]

\* no call of Is is under way, and no concurrent calls
NoIsCall ==
    /\ recv = NilError /\ target = NilError /\ matched = FALSE
    /\ calls = <<>> /\ loopVar = <<>> /\ randSource = 0
    /\ out = NotReturned

(***************************************************************************)
(* Response bodies and the Error Classifier (src/unnamed/part_002).        *)
(***************************************************************************)
\* the responses the transport answers with: each transient status, and the
\* terminal statuses with the bodies that tell their handling apart
TransientResponses ==
    {<<429, "empty">>, <<500, "html">>, <<503, "generic">>, <<504, "data">>}
TerminalResponses ==
    ({200} \X {"data", "dataType", "null", "html", "truncated", "empty"})
    \cup ({201} \X {"data", "truncated"})
    \cup ({204} \X {"data", "html", "empty"})
    \cup ({202} \X {"data"})
    \cup ({301, 408} \X {"html"})
    \cup ({400} \X {"generic", "genericPartial", "genericType", "forbidden",
                    "html", "empty"})
    \cup ({409} \X {"generic", "genericType", "html"})
    \cup ({403} \X {"forbidden", "generic", "genericType", "html"})
    \cup ({404} \X {"html", "generic", "empty"})
    \cup ({502} \X {"html", "generic"})
Responses == TransientResponses \cup TerminalResponses

\* a response as the transport returns it: nothing read, not closed
NewResponse(status, b) ==
    [status |-> status, body |-> b, unread |-> Doc(b).size, closes |-> 0,
     decoders |-> 0, classified |-> 0]

\* what a json.Decoder leaves unread of the body
DecoderRead(resp) ==
    LET rest == Doc(resp.body).size - Doc(resp.body).need
    IN  [resp EXCEPT !.unread = IF @ < rest THEN @ ELSE rest,
                     !.decoders = @ + 1]

\* io.Copy(io.Discard, resp.Body); resp.Body.Close()   (173-177)
CloseWithoutDrain(resp) == [resp EXCEPT !.closes = @ + 1]
drainAndCloseHttpResponse(resp) ==
    [resp EXCEPT !.unread = 0, !.closes = @ + 1]

\* case 429, 500, 503, 504   (186-188)
IsTransientWith502(status) == status \in {429, 500, 502, 503, 504}
IsTransient(status) == status \in {429, 500, 503, 504}

\* case 200, 201, 204   (254-255)
IsSuccessAny2xx(status) == status \in 200..299
IsSuccess(status) == status \in {200, 201, 204}

\* (200-209)
parse400or409(status, b) ==
    LET ret == DecodeStrings(b, GenericError)
    IN  IF ret.err THEN DecodeError
        ELSE IF status = 400 THEN newErrBadRequest(ret.out)
        ELSE newErrConflict(ret.out)

\* (211-217)
parse403IgnoresDecodeError(b) ==
    newErrForbiden(DecodeStrings(b, ForbiddenError).out)
parse403(b) ==
    LET ret == DecodeStrings(b, ForbiddenError)
    IN  IF ret.err THEN DecodeError ELSE newErrForbiden(ret.out)

\* (219-230)
parseErrorAllGeneric(status, b) == newErrHttp(status)
parseError(status, b) ==
    CASE status \in {400, 409} -> parse400or409(status, b)
      [] status = 403 -> parse403(b)
      [] status = 404 -> ErrNotFound
      [] OTHER -> newErrHttp(status)

\* whether parseError puts a json.Decoder on the body
parseErrorDecodes(status) == status \in {400, 403, 409}

\* res != nil && resp.StatusCode != 204   (260)
DecodesAlways(hasDest, status) == hasDest
DecodesSuccessBody(hasDest, status) == hasDest /\ status # 204

\* parseError(resp) was called on the response   (257)
Classified(resp) == [resp EXCEPT !.classified = @ + 1]

\* httpDo from the return of httpDoRetry on: classify or decode, then the
\* deferred drainAndCloseHttpResponse   (252-265)
httpDoTail(resp, hasDest, into) ==
    IF ~IsSuccess(resp.status)
    THEN [result |-> parseError(resp.status, resp.body),
          dest |-> into,
          resp |-> drainAndCloseHttpResponse(
                      IF parseErrorDecodes(resp.status)
                      THEN DecoderRead(Classified(resp))
                      ELSE Classified(resp))]
    ELSE IF DecodesSuccessBody(hasDest, resp.status)
    THEN LET ret == DecodeEnvelope(resp.body, into)
         IN  [result |-> IF ret.err THEN DecodeError ELSE NilError,
              dest |-> ret.out,
              resp |-> drainAndCloseHttpResponse(DecoderRead(resp))]
    ELSE [result |-> NilError,
          dest |-> into,
          resp |-> drainAndCloseHttpResponse(resp)]

(***************************************************************************)
(* The operations (268-317): what each hands to httpDo.                    *)
(***************************************************************************)
Operations == {"Create", "Fetch", "Delete"}
\* res: &ret for Create and Fetch, nil for Delete
HasDest(o) == o \in {"Create", "Fetch"}

(***************************************************************************)
(* The state machine.                                                      *)
(*   pc: "idle"     the call has not started                               *)
(*       "loop"     httpDoRetry at the loop condition (180)                *)
(*       "sending"  inside a.client.Do (181)                               *)
(*       "backOff"  at the call of backOff (193)                           *)
(*       "select"   sleepContext has its timer and enters the select (55)  *)
(*       "parked"   blocked in the select, no case ready                   *)
(*       "stopping" the ctx.Done() case was taken, before delay.Stop (60)  *)
(*       "draining" blocked in <-delay.Tick() after Stop (61)              *)
(*       "returned" httpDoRetry has returned a response to httpDo (249)    *)
(*       "done"     the call has returned                                  *)
(*   timer: "none" | "armed" | "fired" (a fire signal waits in the         *)
(*       channel) | "consumed" (the signal was received) | "stopped"       *)
(***************************************************************************)
Init ==
    /\ pc = "idle"
    /\ op = "none"
    /\ retryCount = 0
    /\ i = 0
    /\ ctxErr = "none"
    /\ timer = "none"
    /\ timerDur = Int64Of(0)
    /\ resps = <<>>
    /\ sends = 0
    /\ sleepLog = <<>>
    /\ dest = AccountData
    /\ result = Running
    /\ selectCase = "none"
    /\ cancelInSleep = FALSE
    /\ reqBody = 0
    /\ presented = <<>>
    /\ NoIsCall

\* the jitter draw followed inside a whole call (SpecBackoff follows all)
CallJitterDraws == {backOffJitterMs \div 2}

\* json.NewEncoder(&b).Encode(body): the length of the encoded body, in
\* reads: the envelope of the account for Create, "null\n" for the nil body
\* of Fetch and Delete   (233-236, 277, 295, 313)
Encode(o) == IF o = "Create" THEN 2 ELSE 1

\* api.Create, api.Fetch or api.Delete calls httpDo, which encodes the body,
\* builds the request and enters httpDoRetry(req, a.retryCount)   (232-248)
Call(o, count) ==
    /\ pc = "idle"
    /\ pc' = "loop"
    /\ op' = o
    /\ retryCount' = count
    /\ i' = 0
    /\ reqBody' = Encode(o)
    /\ UNCHANGED <<ctxErr, timer, timerDur, resps, sends, sleepLog, dest,
                   result, selectCase, cancelInSleep, presented, outsideCall>>

\* i < count   (180)
LoopContinuesInclusive(n, count) == n <= count
LoopContinues(n, count) == n < count

\* the loop condition holds: a.client.Do(req) starts   (180-181)
SendStart ==
    /\ pc = "loop"
    /\ LoopContinues(i, retryCount)
    /\ pc' = "sending"
    /\ sends' = sends + 1
    /\ presented' = Append(presented, reqBody)
    /\ UNCHANGED <<op, retryCount, i, ctxErr, timer, timerDur, resps,
                   sleepLog, dest, result, selectCase, cancelInSleep, reqBody,
                   outsideCall>>

\* the transport reads the request body, req.Body, which is the buffer b
\* itself (http.NewRequestWithContext wraps it, 238), to its end
TransportReadsBody ==
    /\ pc = "sending"
    /\ reqBody > 0
    /\ reqBody' = 0
    /\ UNCHANGED <<pc, op, retryCount, i, ctxErr, timer, timerDur, resps,
                   sends, sleepLog, dest, result, selectCase, cancelInSleep,
                   presented, outsideCall>>

\* the loop condition fails: return nil, new(ErrTooManyRetries), which httpDo
\* returns   (197, 249-251)
TooManyRetries ==
    /\ pc = "loop"
    /\ ~LoopContinues(i, retryCount)
    /\ pc' = "done"
    /\ result' = ErrTooManyRetries
    /\ UNCHANGED <<op, retryCount, i, ctxErr, timer, timerDur, resps, sends,
                   sleepLog, dest, selectCase, cancelInSleep>>
    /\ UNCHANGED <<reqBody, presented, outsideCall>>

\* if err != nil { return nil, err }: where httpDoRetry goes on an error of
\* a.client.Do, and with what   (182-184)
onSendErrorRetry == [next |-> "loop", result |-> Running]
onSendError == [next |-> "done", result |-> TransportError]

\* a.client.Do returns an error: httpDoRetry returns it and httpDo returns
\* it   (182-184, 249-251)
SendError ==
    /\ pc = "sending"
    /\ pc' = onSendError.next
    /\ result' = onSendError.result
    /\ i' = IF onSendError.next = "loop" THEN i + 1 ELSE i
    /\ UNCHANGED <<op, retryCount, ctxErr, timer, timerDur, resps, sends,
                   sleepLog, dest, selectCase, cancelInSleep>>
    /\ UNCHANGED <<reqBody, presented, outsideCall>>

\* where httpDoRetry goes after the transient case of its switch at attempt
\* n of count: to backOff, whichever attempt it is   (186-188, 193)
onTransientSkipsLastSleep(n, count) ==
    IF n + 1 < count THEN [next |-> "backOff", result |-> Running]
    ELSE [next |-> "done", result |-> ErrTooManyRetries]
onTransient(n, count) == [next |-> "backOff", result |-> Running]

\* a.client.Do returns a transient response: drain and close it
\* (186-188)
SendTransient(status, b) ==
    /\ pc = "sending"
    /\ IsTransient(status)
    /\ resps' = Append(resps, drainAndCloseHttpResponse(NewResponse(status, b)))
    /\ pc' = onTransient(i, retryCount).next
    /\ result' = onTransient(i, retryCount).result
    /\ UNCHANGED <<op, retryCount, i, ctxErr, timer, timerDur, sends,
                   sleepLog, dest, selectCase, cancelInSleep>>
    /\ UNCHANGED <<reqBody, presented, outsideCall>>

\* a.client.Do returns any other response: httpDoRetry returns it to httpDo
\* as it is   (189-190)
SendTerminal(status, b) ==
    /\ pc = "sending"
    /\ ~IsTransient(status)
    /\ resps' = Append(resps, NewResponse(status, b))
    /\ pc' = "returned"
    /\ UNCHANGED <<op, retryCount, i, ctxErr, timer, timerDur, sends,
                   sleepLog, dest, result, selectCase, cancelInSleep>>
    /\ UNCHANGED <<reqBody, presented, outsideCall>>

\* httpDo classifies or decodes the response httpDoRetry returned, drains
\* and closes it, and returns   (252-265)
HandleResponse ==
    /\ pc = "returned"
    /\ LET tail == httpDoTail(resps[Len(resps)], HasDest(op), dest)
       IN  /\ resps' = [resps EXCEPT ![Len(resps)] = tail.resp]
           /\ dest' = tail.dest
           /\ result' = tail.result
    /\ pc' = "done"
    /\ UNCHANGED <<op, retryCount, i, ctxErr, timer, timerDur, sends,
                   sleepLog, selectCase, cancelInSleep>>
    /\ UNCHANGED <<reqBody, presented, outsideCall>>

\* backOff(ctx, i): the delay, then sleepContext makes the timer
\* (193; part_001:74-78, 54)
BackOffNoWait(r) ==
    /\ pc = "backOff"
    /\ timerDur' \in backOffTable[i][r]
    /\ timer' = "armed"
    /\ sleepLog' = Append(sleepLog, i)
    /\ pc' = IF op = "backOff" THEN "done" ELSE "loop"
    /\ i' = i + 1
    /\ cancelInSleep' = (cancelInSleep \/ ctxErr # "none")
    /\ selectCase' = "none"
    /\ UNCHANGED <<op, retryCount, ctxErr, resps, sends, dest, result>>
    /\ UNCHANGED <<reqBody, presented, outsideCall>>
BackOff(r) ==
    /\ pc = "backOff"
    /\ timerDur' \in backOffTable[i][r]
    /\ timer' = "armed"
    /\ sleepLog' = Append(sleepLog, i)
    /\ pc' = "select"
    /\ cancelInSleep' = (cancelInSleep \/ ctxErr # "none")
    /\ selectCase' = "none"
    /\ UNCHANGED <<op, retryCount, i, ctxErr, resps, sends, dest, result>>
    /\ UNCHANGED <<reqBody, presented, outsideCall>>

\* what Create and Fetch return when httpDo returned err with data behind
\* &ret: if err != nil { return AccountData{}, err }; return ret.Data, nil.
\* Delete returns the error of httpDo.   (273-283, 291-301, 305-316)
operationReturnWithData(hasDest, err, data) ==
    [returned |-> TRUE, data |-> IF hasDest THEN data ELSE AccountData,
     err |-> err]
operationReturn(hasDest, err, data) ==
    [returned |-> TRUE,
     data |-> IF hasDest /\ err = NilError THEN data ELSE AccountData,
     err |-> err]

\* httpDo has returned: Create, Fetch or Delete returns to its caller
OperationReturns ==
    /\ pc = "done"
    /\ op \in Operations
    /\ ~out.returned
    /\ out' = operationReturn(HasDest(op), result, dest)
    /\ UNCHANGED <<pc, op, retryCount, i, ctxErr, timer, timerDur, resps,
                   sends, sleepLog, dest, result, selectCase, cancelInSleep,
                   reqBody, presented, recv, target, matched, calls, loopVar,
                   randSource>>

\* what sleepContext returns from the ctx.Done() case   (63)
sleepContextSwallows(cause) == NilError
sleepContextDone(cause) == ContextError(cause)

\* sleepContext returns err to backOff, backOff to its caller: httpDoRetry
\* goes on with the next attempt or returns the error, which httpDo returns
\* (193-196, 249-251); a direct caller of backOff gets err
SleepReturnsIgnoresError(err) ==
    IF op = "backOff"
    THEN pc' = "done" /\ result' = err /\ i' = i
    ELSE pc' = "loop" /\ result' = result /\ i' = i + 1
SleepReturns(err) ==
    IF op = "backOff"
    THEN pc' = "done" /\ result' = err /\ i' = i
    ELSE IF err = NilError
    THEN pc' = "loop" /\ result' = result /\ i' = i + 1
    ELSE pc' = "done" /\ result' = err /\ i' = i

\* the timer expires: its fire signal is put in the channel
TimerFire ==
    /\ timer = "armed"
    /\ pc \in {"select", "stopping"}
    /\ timer' = "fired"
    /\ UNCHANGED <<pc, op, retryCount, i, ctxErr, timerDur, resps, sends,
                   sleepLog, dest, result, selectCase, cancelInSleep>>
    /\ UNCHANGED <<reqBody, presented, outsideCall>>

\* the timer expires while the goroutine is blocked in the select: the
\* delay.Tick() case receives the signal and sleepContext returns nil (56-57)
WakeByTick ==
    /\ timer = "armed"
    /\ pc = "parked"
    /\ timer' = "consumed"
    /\ selectCase' = "tick"
    /\ SleepReturns(NilError)
    /\ UNCHANGED <<op, retryCount, ctxErr, timerDur, resps, sends, sleepLog,
                   dest, cancelInSleep>>
    /\ UNCHANGED <<reqBody, presented, outsideCall>>

\* the context is cancelled or its deadline passes; a goroutine blocked in
\* the select wakes in the ctx.Done() case   (58)
Cancel(cause) ==
    /\ ctxErr = "none"
    /\ pc # "done"
    /\ ctxErr' = cause
    /\ pc' = IF pc = "parked" THEN "stopping" ELSE pc
    /\ selectCase' = IF pc = "parked" THEN "done" ELSE selectCase
    /\ cancelInSleep' = (cancelInSleep \/ pc \in {"select", "parked"})
    /\ UNCHANGED <<op, retryCount, i, timer, timerDur, resps, sends,
                   sleepLog, dest, result>>
    /\ UNCHANGED <<reqBody, presented, outsideCall>>

\* the select finds the fire signal ready and takes it   (56-57)
SelectTick ==
    /\ pc = "select"
    /\ timer = "fired"
    /\ timer' = "consumed"
    /\ selectCase' = "tick"
    /\ SleepReturns(NilError)
    /\ UNCHANGED <<op, retryCount, ctxErr, timerDur, resps, sends, sleepLog,
                   dest, cancelInSleep>>
    /\ UNCHANGED <<reqBody, presented, outsideCall>>

\* the select finds ctx.Done() ready and takes it   (58)
SelectDone ==
    /\ pc = "select"
    /\ ctxErr # "none"
    /\ pc' = "stopping"
    /\ selectCase' = "done"
    /\ UNCHANGED <<op, retryCount, i, ctxErr, timer, timerDur, resps, sends,
                   sleepLog, dest, result, cancelInSleep>>
    /\ UNCHANGED <<reqBody, presented, outsideCall>>

\* the select finds no case ready and blocks
SelectPark ==
    /\ pc = "select"
    /\ timer = "armed"
    /\ ctxErr = "none"
    /\ pc' = "parked"
    /\ UNCHANGED <<op, retryCount, i, ctxErr, timer, timerDur, resps, sends,
                   sleepLog, dest, result, selectCase, cancelInSleep>>
    /\ UNCHANGED <<reqBody, presented, outsideCall>>

\* delay.Stop(), which is time.Timer.Stop (28-30): what it reports and
\* what it leaves of a timer in state t.  It stops an armed timer and
\* reports true.  Of a timer that has fired, with the signal still in the
\* channel, it reports false and leaves the signal (the buffered timer
\* channel, Go before 1.23), or discards the signal and reports true (the
\* unbuffered timer channel, since Go 1.23).
Stop(t) ==
    IF t = "armed" THEN {[ok |-> TRUE, timer |-> "stopped"]}
    ELSE {[ok |-> FALSE, timer |-> "fired"], [ok |-> TRUE, timer |-> "stopped"]}

\* if !delay.Stop()   (60)
drainsAfterStopInverted(ok) == ok
drainsAfterStopNever(ok) == FALSE
drainsAfterStop(ok) == ~ok

\* if !delay.Stop() { <-delay.Tick() }; return ctx.Err()   (60-63)
StopTimer ==
    /\ pc = "stopping"
    /\ \E s \in Stop(timer) :
          /\ timer' = s.timer
          /\ IF drainsAfterStop(s.ok)
             THEN pc' = "draining" /\ UNCHANGED <<result, i>>
             ELSE SleepReturns(sleepContextDone(ctxErr))
    /\ UNCHANGED <<op, retryCount, ctxErr, timerDur, resps, sends, sleepLog,
                   dest, selectCase, cancelInSleep>>
    /\ UNCHANGED <<reqBody, presented, outsideCall>>

\* <-delay.Tick() receives the fire signal; return ctx.Err()   (61-63)
DrainTick ==
    /\ pc = "draining"
    /\ timer = "fired"
    /\ timer' = "consumed"
    /\ SleepReturns(sleepContextDone(ctxErr))
    /\ UNCHANGED <<op, retryCount, ctxErr, timerDur, resps, sends, sleepLog,
                   dest, selectCase, cancelInSleep>>
    /\ UNCHANGED <<reqBody, presented, outsideCall>>

ContextCauses == {"Canceled", "DeadlineExceeded"}

Next ==
    \/ \E o \in Operations, count \in 0..MaxRetry : Call(o, count)
    \/ SendStart
    \/ TooManyRetries
    \/ SendError
    \/ TransportReadsBody
    \/ \E resp \in Responses : SendTransient(resp[1], resp[2])
    \/ \E resp \in Responses : SendTerminal(resp[1], resp[2])
    \/ HandleResponse
    \/ \E r \in CallJitterDraws : BackOff(r)
    \/ TimerFire
    \/ WakeByTick
    \/ \E cause \in ContextCauses : Cancel(cause)
    \/ SelectTick
    \/ SelectDone
    \/ SelectPark
    \/ StopTimer
    \/ DrainTick
    \/ OperationReturns

Spec == Init /\ [][Next]_vars

\* the answers followed where only the course of the call matters, not the
\* body: two transient statuses, a success and a classified error
CourseResponses ==
    {<<429, "empty">>, <<503, "generic">>, <<200, "data">>, <<404, "html">>}

\* the steps of the calling goroutine, which runs whenever it can
GoroutineStep ==
    \/ SendStart
    \/ TooManyRetries
    \/ HandleResponse
    \/ \E r \in CallJitterDraws : BackOff(r)
    \/ SelectTick
    \/ SelectDone
    \/ SelectPark
    \/ StopTimer
    \/ DrainTick
    \/ OperationReturns

\* a.client.Do returns
SendReturns ==
    \/ SendError
    \/ \E resp \in CourseResponses : SendTransient(resp[1], resp[2])
    \/ \E resp \in CourseResponses : SendTerminal(resp[1], resp[2])

\* the timer of a sleep expires
TimerExpires == TimerFire \/ WakeByTick

NextFair ==
    \/ \E o \in Operations, count \in 0..MaxRetry : Call(o, count)
    \/ GoroutineStep
    \/ TransportReadsBody
    \/ SendReturns
    \/ TimerExpires
    \/ \E cause \in ContextCauses : Cancel(cause)

\* a call whose goroutine is scheduled, whose sends return and whose timers
\* expire unless stopped; the context may or may not be cancelled
SpecFair ==
    /\ Init
    /\ [][NextFair]_vars
    /\ WF_vars(GoroutineStep)
    /\ WF_vars(SendReturns)
    /\ WF_vars(TimerExpires)

(***************************************************************************)
(* backOff called directly with attempt number n, as TestBackOff does      *)
(* (src/backoff_test.go:52).                                               *)
(***************************************************************************)
InitBackoff ==
    /\ pc = "backOff"
    /\ op = "backOff"
    /\ retryCount = 0
    /\ i \in 0..MaxAttemptN
    /\ ctxErr = "none"
    /\ timer = "none"
    /\ timerDur = Int64Of(0)
    /\ resps = <<>>
    /\ sends = 0
    /\ sleepLog = <<>>
    /\ dest = AccountData
    /\ result = Running
    /\ selectCase = "none"
    /\ cancelInSleep = FALSE
    /\ reqBody = 0
    /\ presented = <<>>
    /\ NoIsCall

NextBackoff ==
    \/ \E r \in JitterDraws : BackOff(r)
    \/ TimerFire
    \/ WakeByTick
    \/ \E cause \in ContextCauses : Cancel(cause)
    \/ SelectTick
    \/ SelectDone
    \/ SelectPark
    \/ StopTimer
    \/ DrainTick

SpecBackoff == InitBackoff /\ [][NextBackoff]_vars

(***************************************************************************)
(* e.Is(target) called on the errors the classifier builds                 *)
(* (src/errors.go:52-58, 70-76, 107-113), as the tests do through          *)
(* errors.Is (src/unnamed/part_000:109-223).                               *)
(***************************************************************************)
\* the values a detail field takes: empty, and two that differ
DetailValues == {"", "m1", "m2"}

\* the errors that have an Is method, as the classifier builds them
GenericErrors == [error_message : DetailValues, error_code : DetailValues]
ForbiddenErrors == [error : DetailValues, error_description : DetailValues]
MatchingErrors ==
    {newErrBadRequest(g) : g \in GenericErrors}
    \cup {newErrConflict(g) : g \in GenericErrors}
    \cup {newErrForbiden(f) : f \in ForbiddenErrors}

\* the targets: those, and the errors without detail fields
Targets ==
    MatchingErrors
    \cup {ErrNotFound, ErrTooManyRetries, TransportError, DecodeError}
    \cup {newErrHttp(s) : s \in {0, 500}}

InitIs ==
    /\ pc = "Is"
    /\ op = "Is"
    /\ retryCount = 0
    /\ i = 0
    /\ ctxErr = "none"
    /\ timer = "none"
    /\ timerDur = Int64Of(0)
    /\ resps = <<>>
    /\ sends = 0
    /\ sleepLog = <<>>
    /\ dest = AccountData
    /\ result = Running
    /\ selectCase = "none"
    /\ cancelInSleep = FALSE
    /\ reqBody = 0
    /\ presented = <<>>
    /\ recv \in MatchingErrors
    /\ target \in Targets
    /\ matched = FALSE
    /\ calls = <<>> /\ loopVar = <<>> /\ randSource = 0
    /\ out = NotReturned

\* recv.Is(target) runs and returns
CallIs ==
    /\ pc = "Is"
    /\ matched' = Is(recv, target)
    /\ pc' = "done"
    /\ UNCHANGED <<op, retryCount, i, ctxErr, timer, timerDur, resps, sends,
                   sleepLog, dest, result, selectCase, cancelInSleep, reqBody,
                   presented, recv, target, calls, loopVar, randSource, out>>

NextIs == CallIs

SpecIs == InitIs /\ [][NextIs]_vars

(***************************************************************************)
(* Concurrent calls on one api value (src/unnamed/part_002:168-171).  The  *)
(* api's fields are shared and only read by httpDo; b, req, resp and the   *)
(* loop variable i are locals of each call's frames; ctx is each caller's; *)
(* rand.Intn draws from the global source of math/rand, which all calls    *)
(* share (part_001:76).  A frame holds what the call has done so far and   *)
(* the outcomes its environment gave it: per attempt the status and body   *)
(* of the response (status 0 for an error of a.client.Do) and how the      *)
(* sleep after it ended.                                                   *)
(***************************************************************************)
CallIds == 1..MaxCalls

\* the frame of a call that has not started
NoFrame ==
    [pc |-> "idle", op |-> "none", sends |-> 0,
     sleepLog |-> <<>>, draw |-> 0, result |-> Running, outcomes |-> <<>>]

\* one outcome of an attempt
Outcome(status, b, sleep) == [status |-> status, body |-> b, sleep |-> sleep]

\* the states of the global source followed, and the draw of each
RandPeriod == 2
Intn(state) == IF state = 0 THEN 25 ELSE 75

\* the operations and answers followed with concurrent calls: one with a
\* destination and one without, a transient status and a success
SharedOperations == {"Create", "Delete"}
SharedResponses == {<<503, "generic">>, <<200, "data">>}

\* where the loop variable of call c's httpDoRetry lives: in its own frame
loopVarOnApi(c) == 1
loopVarOf(c) == c

InitShared ==
    /\ pc = "shared"
    /\ op = "shared"
    /\ retryCount \in 0..MaxSharedRetry
    /\ i = 0
    /\ ctxErr = "none"
    /\ timer = "none"
    /\ timerDur = Int64Of(0)
    /\ resps = <<>>
    /\ sends = 0
    /\ sleepLog = <<>>
    /\ dest = AccountData
    /\ result = Running
    /\ selectCase = "none"
    /\ cancelInSleep = FALSE
    /\ reqBody = 0
    /\ presented = <<>>
    /\ recv = NilError /\ target = NilError /\ matched = FALSE
    /\ calls = [c \in CallIds |-> NoFrame]
    /\ loopVar = [c \in CallIds |-> 0]
    /\ randSource \in 0..(RandPeriod - 1)
    /\ out = NotReturned

\* what a step of a concurrent call leaves alone
SharedFrame ==
    UNCHANGED <<pc, op, retryCount, i, ctxErr, timer, timerDur, resps, sends,
                sleepLog, dest, result, selectCase, cancelInSleep, reqBody,
                presented, recv, target, matched, out>>

\* call c enters httpDo and httpDoRetry(req, a.retryCount)   (232-248, 180)
SharedCall(c, o) ==
    /\ calls[c].pc = "idle"
    /\ calls' = [calls EXCEPT ![c].pc = "loop", ![c].op = o]
    /\ loopVar' = [loopVar EXCEPT ![loopVarOf(c)] = 0]
    /\ UNCHANGED randSource
    /\ SharedFrame

\* (180-181)
SharedSendStart(c) ==
    /\ calls[c].pc = "loop"
    /\ LoopContinues(loopVar[loopVarOf(c)], retryCount)
    /\ calls' = [calls EXCEPT ![c].pc = "sending", ![c].sends = @ + 1]
    /\ UNCHANGED <<loopVar, randSource>>
    /\ SharedFrame

\* (197, 249-251)
SharedTooManyRetries(c) ==
    /\ calls[c].pc = "loop"
    /\ ~LoopContinues(loopVar[loopVarOf(c)], retryCount)
    /\ calls' = [calls EXCEPT ![c].pc = "done", ![c].result = ErrTooManyRetries]
    /\ UNCHANGED <<loopVar, randSource>>
    /\ SharedFrame

\* (182-184, 249-251)
SharedSendError(c) ==
    /\ calls[c].pc = "sending"
    /\ calls' = [calls EXCEPT ![c].pc = onSendError.next,
                              ![c].result = onSendError.result,
                              ![c].outcomes = Append(@, Outcome(0, "empty", "none"))]
    /\ loopVar' = IF onSendError.next = "loop"
                  THEN [loopVar EXCEPT ![loopVarOf(c)] = @ + 1] ELSE loopVar
    /\ UNCHANGED randSource
    /\ SharedFrame

\* a transient response, then backOff(req.Context(), i) draws its jitter
\* and starts the sleep   (186-188, 193; part_001:74-78)
SharedSendTransient(c, status, b) ==
    /\ calls[c].pc = "sending"
    /\ IsTransient(status)
    /\ calls' = [calls EXCEPT
                   ![c].pc = "sleeping",
                   ![c].sleepLog = Append(@, loopVar[loopVarOf(c)]),
                   ![c].draw = Intn(randSource),
                   ![c].outcomes = Append(@, Outcome(status, b, "none"))]
    /\ randSource' = (randSource + 1) % RandPeriod
    /\ UNCHANGED loopVar
    /\ SharedFrame

\* any other response: httpDoRetry returns it, httpDo classifies or decodes
\* it and returns   (189-190, 252-265)
SharedSendTerminal(c, status, b) ==
    /\ calls[c].pc = "sending"
    /\ ~IsTransient(status)
    /\ calls' = [calls EXCEPT
                   ![c].pc = "done",
                   ![c].result = httpDoTail(NewResponse(status, b),
                                            HasDest(calls[c].op),
                                            AccountData).result,
                   ![c].outcomes = Append(@, Outcome(status, b, "none"))]
    /\ UNCHANGED <<loopVar, randSource>>
    /\ SharedFrame

\* the sleep of call c ends by its timer: i++   (part_001:56-57; 180)
SharedSleepTick(c) ==
    /\ calls[c].pc = "sleeping"
    /\ calls' = [calls EXCEPT
                   ![c].pc = "loop",
                   ![c].outcomes[Len(calls[c].outcomes)].sleep = "tick"]
    /\ loopVar' = [loopVar EXCEPT ![loopVarOf(c)] = @ + 1]
    /\ UNCHANGED randSource
    /\ SharedFrame

\* the context of call c is cancelled by the time its sleep ends, and the
\* sleep ends by it   (part_001:58-63; 194-195)
SharedSleepCancelled(c, cause) ==
    /\ calls[c].pc = "sleeping"
    /\ calls' = [calls EXCEPT
                   ![c].pc = "done",
                   ![c].result = sleepContextDone(cause),
                   ![c].outcomes[Len(calls[c].outcomes)].sleep = cause]
    /\ UNCHANGED <<loopVar, randSource>>
    /\ SharedFrame

NextShared ==
    \E c \in CallIds :
        \/ \E o \in SharedOperations : SharedCall(c, o)
        \/ SharedSendStart(c)
        \/ SharedTooManyRetries(c)
        \/ SharedSendError(c)
        \/ \E resp \in SharedResponses : SharedSendTransient(c, resp[1], resp[2])
        \/ \E resp \in SharedResponses : SharedSendTerminal(c, resp[1], resp[2])
        \/ SharedSleepTick(c)
        \/ SharedSleepCancelled(c, "Canceled")

SpecShared == InitShared /\ [][NextShared]_vars

\* httpDoRetry and httpDo run by one call alone, from attempt n on, over the
\* outcomes ev: its loop variable, sends, backoff indices and result when it
\* returns; "waiting" if ev ends before the call does   (179-198, 249-265)
RECURSIVE httpDoAlone(_, _, _, _, _, _)
httpDoAlone(o, count, n, ev, sent, slept) ==
    IF ~(n < count)
    THEN [i |-> n, sends |-> sent, sleepLog |-> slept,
          result |-> ErrTooManyRetries]
    ELSE IF ev = <<>>
    THEN [i |-> n, sends |-> sent, sleepLog |-> slept, result |-> Err("waiting")]
    ELSE IF Head(ev).status = 0
    THEN [i |-> n, sends |-> sent + 1, sleepLog |-> slept,
          result |-> TransportError]
    ELSE IF Head(ev).status \in {429, 500, 503, 504}
    THEN IF Head(ev).sleep = "tick"
         THEN httpDoAlone(o, count, n + 1, Tail(ev), sent + 1, Append(slept, n))
         ELSE [i |-> n, sends |-> sent + 1, sleepLog |-> Append(slept, n),
               result |-> ContextError(Head(ev).sleep)]
    ELSE [i |-> n, sends |-> sent + 1, sleepLog |-> slept,
          result |-> httpDoTail(NewResponse(Head(ev).status, Head(ev).body),
                                HasDest(o), AccountData).result]

(***************************************************************************)
(* Properties.                                                             *)
(***************************************************************************)
\* every send of the call so far was answered with a response
EverySendAnswered == Len(resps) = sends
AllTransient == \A k \in 1..Len(resps) : resps[k].status \in {429, 500, 503, 504}
LastResp == resps[Len(resps)]
\* the call has returned after a final (non-transient) response
ReturnedOnFinal ==
    /\ pc = "done"
    /\ sends > 0
    /\ EverySendAnswered
    /\ LastResp.status \notin {429, 500, 503, 504}

\* C1: with retry count K >= 1, every send answered by a transient status
\* and no cancellation, a returned call (Create, Fetch or Delete alike) has
\* made exactly K sends and returns ErrTooManyRetries; and no call ever
\* makes more than K sends.
C1_ExactlyKSends ==
    /\ op \in Operations => sends <= retryCount
    /\ (/\ pc = "done"
        /\ retryCount >= 1
        /\ ctxErr = "none"
        /\ EverySendAnswered
        /\ AllTransient)
       => (sends = retryCount /\ result = ErrTooManyRetries)

C1_Witness ==
    /\ pc = "done"
    /\ op = "Delete"
    /\ retryCount = MaxRetry
    /\ ctxErr = "none"
    /\ sends = MaxRetry
    /\ Len(resps) = MaxRetry
    /\ AllTransient
    /\ result = ErrTooManyRetries

\* C2: no body is ever closed twice, and when httpDo has returned, on
\* whatever path, every response the transport returned during the call is
\* fully drained and closed exactly once.
C2_BodiesDrainedOnce ==
    /\ \A k \in 1..Len(resps) : resps[k].closes <= 1
    /\ pc = "done" =>
         \A k \in 1..Len(resps) : resps[k].unread = 0 /\ resps[k].closes = 1

\* a success body fails to decode after a retry, with part of it unread by
\* the decoder
C2_Witness ==
    /\ pc = "done"
    /\ Len(resps) = 2
    /\ resps[2].status = 200
    /\ resps[2].body = "html"
    /\ result = DecodeError
    /\ resps[1].unread = 0 /\ resps[1].closes = 1
    /\ resps[2].unread = 0 /\ resps[2].closes = 1

\* C3: a send that the transport fails is the last send of the call: while
\* it is in flight or after it failed there is no further send and no sleep
\* beyond those of the transient responses before it, and the call returns
\* the transport's error, not too-many-retries or another error.
C3_TransportErrorReturned ==
    Len(resps) < sends =>
        /\ sends = Len(resps) + 1
        /\ Len(sleepLog) = Len(resps)
        /\ \/ pc = "sending"
           \/ pc = "done" /\ result = TransportError

\* the transport fails the last permitted attempt, after two retries
C3_Witness ==
    /\ pc = "done"
    /\ result = TransportError
    /\ retryCount = MaxRetry
    /\ sends = MaxRetry
    /\ Len(resps) = MaxRetry - 1
    /\ Len(sleepLog) = MaxRetry - 1

\* the select of the sleep has taken the cancellation case and sleepContext
\* has not returned yet
OnCancelPath == pc \in {"stopping", "draining"}

\* C4: once the select of a sleep has taken the cancellation case, the call
\* only releases the timer and then returns with the context's error; no
\* send is made in between, and a call that returned the context's error
\* made no send after the sleep in which it observed the cancellation.
C4_CancelObservedReturns ==
    /\ [][OnCancelPath =>
            \/ OnCancelPath' /\ sends' = sends /\ result' = result
            \/ /\ pc' = "done"
               /\ result' = ContextError(ctxErr)
               /\ sends' = sends]_vars
    /\ [](OnCancelPath => ctxErr \in ContextCauses)
    /\ [](pc = "done" /\ result.kind \in ContextCauses =>
            sends = Len(sleepLog) /\ result = ContextError(ctxErr))

\* the deadline passes during the first sleep, the timer fires before Stop
\* and its signal is drained; two attempts are left unused
C4_Witness ==
    /\ pc = "done"
    /\ result = ContextError("DeadlineExceeded")
    /\ selectCase = "done"
    /\ timer = "consumed"
    /\ sends = 1
    /\ retryCount = MaxRetry

\* a failure that reports the cancellation: the context's error, or the
\* error of a send made under the cancelled context
IsCancellationFailure(e) == e.kind \in ContextCauses \/ e = TransportError

\* C5 as claimed: whenever the context is cancelled before a sleep has
\* completed, whichever way the race between timer and cancellation goes,
\* httpDo returns a cancellation failure and never too-many-retries.
C5_Original ==
    (pc = "done" /\ cancelInSleep) =>
        (IsCancellationFailure(result) /\ result # ErrTooManyRetries)

\* C5 amended: when the select of a sleep takes the cancellation case, the
\* context was cancelled before that sleep completed and httpDo returns the
\* context's error, never too-many-retries, at every attempt index; the
\* select must take that case when the timer has not fired; a call that
\* returns too-many-retries although the context was cancelled during a
\* sleep is one whose last select received the timer's fire signal.
C5_CancelCaseTaken ==
    /\ [](selectCase = "done" =>
            /\ cancelInSleep
            /\ pc \in {"stopping", "draining", "done"}
            /\ pc = "done" => result = ContextError(ctxErr))
    /\ [](pc = "done" /\ cancelInSleep /\ result = ErrTooManyRetries =>
            selectCase = "tick" /\ timer = "consumed")
    /\ [][(/\ pc \in {"select", "parked"}
           /\ pc' \notin {"select", "parked"}
           /\ ctxErr' # "none"
           /\ timer = "armed")
          => (pc' = "stopping" /\ selectCase' = "done")]_vars

\* cancellation wins the sleep after the last permitted attempt
C5_Witness ==
    /\ pc = "done"
    /\ selectCase = "done"
    /\ cancelInSleep
    /\ retryCount = MaxRetry
    /\ sends = MaxRetry
    /\ Len(sleepLog) = MaxRetry
    /\ result = ContextError("Canceled")

\* the detail the bodies that decode as a structured error carry
GenericDetailOf(b) ==
    CASE b = "generic" -> <<"m1", "c1">>
      [] b = "genericPartial" -> <<"m2", "">>
      [] b = "forbidden" -> <<"", "">>
ForbiddenDetailOf(b) ==
    CASE b = "forbidden" -> <<"e1", "d1">>
      [] b = "generic" -> <<"", "">>

\* C6: a call that returned on a final non-success response returns the
\* error its status determines: 400 a bad-request and 409 a conflict with
\* the body's error_message and error_code, 403 a forbidden with the body's
\* error and error_description (for bodies that decode as such), 404
\* not-found whatever the body, any other status an ErrHttp with exactly
\* that status.
C6_ErrorKindByStatus ==
    (ReturnedOnFinal /\ LastResp.status \notin {200, 201, 204}) =>
        LET st == LastResp.status
            b == LastResp.body
        IN  /\ (st \in {400, 409} /\ b \in {"generic", "genericPartial", "forbidden"}) =>
                 /\ result.kind = IF st = 400 THEN "bad_request" ELSE "conflict"
                 /\ <<result.error_message, result.error_code>> = GenericDetailOf(b)
                 /\ result.status = 0
                 /\ <<result.error, result.error_description>> = <<"", "">>
            /\ (st = 403 /\ b \in {"forbidden", "generic"}) =>
                 /\ result.kind = "forbidden"
                 /\ <<result.error, result.error_description>> = ForbiddenDetailOf(b)
                 /\ result.status = 0
                 /\ <<result.error_message, result.error_code>> = <<"", "">>
            /\ st = 404 => result = Err("not_found")
            /\ st \notin {400, 403, 404, 409} =>
                 result = [Err("http") EXCEPT !.status = st]

\* a 409 with the structured body yields the conflict carrying its detail
C6_Witness ==
    /\ ReturnedOnFinal
    /\ LastResp.status = 409
    /\ LastResp.body = "generic"
    /\ result.kind = "conflict"
    /\ result.error_message = "m1"
    /\ result.error_code = "c1"

\* C7: a call with a destination (Create, Fetch) that returned on a 200 or
\* 201: a well-formed envelope gives no error and the destination holds the
\* body's fields, a body that is no JSON, is cut short, is empty or holds a
\* field of the wrong type gives the decode error; the body is drained and
\* closed either way.
C7_SuccessBodyDecoded ==
    (ReturnedOnFinal /\ LastResp.status \in {200, 201} /\ op \in {"Create", "Fetch"}) =>
        LET b == LastResp.body
        IN  /\ b = "data" =>
                 /\ result = Err("nil")
                 /\ dest = [id |-> "id1", organisation_id |-> "org1",
                            type |-> "accounts"]
            /\ b = "null" =>
                 /\ result = Err("nil")
                 /\ dest = [id |-> "", organisation_id |-> "", type |-> ""]
            /\ b \in {"html", "truncated", "empty", "dataType"} =>
                 result = Err("decode")
            /\ LastResp.unread = 0
            /\ LastResp.closes = 1

\* Create gets a 201 whose body is cut short
C7_Witness ==
    /\ ReturnedOnFinal
    /\ op = "Create"
    /\ LastResp.status = 201
    /\ LastResp.body = "truncated"
    /\ result = DecodeError
    /\ LastResp.unread = 0
    /\ LastResp.closes = 1

\* the other case of C7: Fetch gets a 200 with the envelope
C7_WitnessDecoded ==
    /\ ReturnedOnFinal
    /\ op = "Fetch"
    /\ LastResp.status = 200
    /\ LastResp.body = "data"
    /\ result = NilError
    /\ dest.id = "id1"

\* C8: a call that returned on a 204 returns no error and its destination
\* is as it was before the call, with or without a destination supplied and
\* whether the body is an envelope, no JSON at all, or empty.
C8_NoContentSkipsDecode ==
    (ReturnedOnFinal /\ LastResp.status = 204) =>
        /\ result = Err("nil")
        /\ dest = [id |-> "", organisation_id |-> "", type |-> ""]

\* Fetch (a destination is supplied) gets a 204 that carries an envelope
C8_Witness ==
    /\ ReturnedOnFinal
    /\ op = "Fetch"
    /\ LastResp.status = 204
    /\ LastResp.body = "data"
    /\ result = NilError
    /\ dest = AccountData

\* x milliseconds as nanoseconds, for x below 2^31, in w limbs
MsAsNs(x, w) == MulSmall(MulSmall(FromNat(x, w), 1000), 1000)
\* 500 * 3^n * 10^6 and 150 * 2^n * 10^6: 500 * 1.5^n ms and 150 ms in
\* units of 2^-n ns
ScaledBaseNs(n) == Pow3Times(MsAsNs(500, WideLimbs), n)
ScaledToleranceNs(n) == ShiftLeft(MsAsNs(150, WideLimbs), n)
\* backOff has handed a duration to the timer factory
BackOffRequested == op = "backOff" /\ timer # "none"

DelayWithinBounds ==
    LET scaled == ShiftLeft(Resize(timerDur, WideLimbs), i)
    IN  /\ ~IsNeg64(timerDur)
        /\ ~Less64(timerDur, MsAsNs(100, Int64Limbs))
        /\ LessEq(ScaledBaseNs(i), Add(scaled, ScaledToleranceNs(i)))
        /\ LessEq(scaled, Add(ScaledBaseNs(i), ScaledToleranceNs(i)))

\* C9 as claimed: for every attempt number n the duration backOff requests
\* is not negative, not below 100ms and within
\* [max(100ms, 500*1.5^n - 150ms), 500*1.5^n + 150ms].
C9_DelayWithinBounds == BackOffRequested => DelayWithinBounds

\* where C9 does hold: attempt numbers up to 58, below which neither the
\* millisecond value nor its conversion to a duration overflows
C9_DelayWithinBoundsUpTo58 == (BackOffRequested /\ i <= 58) => DelayWithinBounds

\* the expected values of TestBackOff (src/backoff_test.go:33-42)
TestBackOffExpected ==
    <<500, 750, 1125, 1688, 2531, 3797, 5695, 8543, 12814, 19222>>

\* C10: for attempts 0..9 the duration backOff requests is
\* max(100ms, T + j) for the table value T of the attempt and some jitter j
\* in -50ms..50ms, and so within the test's tolerance of 100ms of T.
C10_TableWithJitter ==
    (BackOffRequested /\ i <= 9) =>
        \E j \in -50..50 :
            LET t == TestBackOffExpected[i + 1]
                ms == IF t + j > 100 THEN t + j ELSE 100
            IN  /\ timerDur = MsAsNs(ms, Int64Limbs)
                /\ ms - t <= 100
                /\ t - ms <= 100

\* attempt 9 with the largest jitter draw: 19222ms + 49ms
C10_Witness ==
    /\ BackOffRequested
    /\ i = 9
    /\ timerDur = MsAsNs(19271, Int64Limbs)

(***************************************************************************)
(* The retry loop, attempt by attempt.                                     *)
(***************************************************************************)
\* C12: a call made with retry count 0 never asks the transport to send
\* and never starts a backoff sleep, and returns ErrTooManyRetries.
C12_ZeroAttemptsNoSend ==
    (op \in Operations /\ retryCount = 0) =>
        /\ sends = 0
        /\ resps = <<>>
        /\ sleepLog = <<>>
        /\ timer = "none"
        /\ pc \in {"loop", "done"}
        /\ pc = "done" => result = ErrTooManyRetries

\* a call with retry count 0 has returned
C12_Witness ==
    /\ op \in Operations
    /\ retryCount = 0
    /\ pc = "done"
    /\ result = ErrTooManyRetries
    /\ sends = 0

\* C13: a response is followed by a backoff sleep, and only then by a
\* further pass of the loop, exactly when its status is 429, 500, 503 or
\* 504: every response but the last has one of these, and the k-th sleep
\* follows the k-th response.  A response with any other status is the last:
\* httpDoRetry returns it to httpDo unread and unclosed, with no sleep and no
\* send after it.
C13_OnlyTransientRetried ==
    op \in Operations =>
        /\ \A k \in 1..Len(resps) :
              /\ resps[k].status \in {429, 500, 503, 504} <=>
                    (k <= Len(sleepLog) \/ (k = Len(resps) /\ pc = "backOff"))
              /\ k < Len(resps) => resps[k].status \in {429, 500, 503, 504}
        /\ Len(sleepLog) <= Len(resps)
        /\ (Len(resps) > 0 /\ LastResp.status \notin {429, 500, 503, 504}) =>
              /\ pc \in {"returned", "done"}
              /\ sends = Len(resps)
              /\ Len(sleepLog) = Len(resps) - 1
              /\ timer \notin {"armed", "fired"}
              /\ pc = "returned" =>
                    /\ LastResp.unread = Doc(LastResp.body).size
                    /\ LastResp.closes = 0
                    /\ result = Running

\* a 502 answers the second attempt and is handed to httpDo with its body
\* unread
C13_Witness ==
    /\ op \in Operations
    /\ pc = "returned"
    /\ Len(resps) = 2
    /\ LastResp.status = 502
    /\ LastResp.unread > 0
    /\ Len(sleepLog) = 1

\* C16: within one call every a.client.Do, the first and each retry, is
\* presented with the whole encoded request body, also after the transport
\* of an earlier attempt read the body to its end.
C16_SameBodyEverySend ==
    op \in Operations =>
        \A k \in 1..Len(presented) : presented[k] = Encode(op)

\* sleepContext is under way
Sleeping == pc \in {"select", "parked", "stopping", "draining"}

\* C18: the events of a call are sequential.  A sleep starts only after the
\* transient response of the current attempt i was drained and closed, and
\* is requested with index i; the send of a further attempt starts only
\* after the sleep of the attempt before it completed by the timer's fire
\* signal; while a send is under way no timer is running and every earlier
\* send has been answered, and while a sleep is under way no send is.
C18_StrictlySequential ==
    /\ [][(op \in Operations /\ timer' = "armed" /\ timer # "armed") =>
            /\ pc = "backOff" /\ Sleeping'
            /\ resps' = resps
            /\ Len(resps) = i + 1
            /\ LastResp.status \in {429, 500, 503, 504}
            /\ LastResp.unread = 0 /\ LastResp.closes = 1
            /\ sleepLog' = Append(sleepLog, i)
            /\ Len(sleepLog') = i + 1]_vars
    /\ [][(op \in Operations /\ sends' # sends) =>
            /\ sends' = sends + 1
            /\ pc = "loop" /\ pc' = "sending"
            /\ i = sends
            /\ sends > 0 =>
                  /\ selectCase = "tick"
                  /\ timer = "consumed"
                  /\ Len(sleepLog) = sends
                  /\ sleepLog[sends] = sends - 1]_vars
    /\ []((op \in Operations /\ pc = "sending") =>
            /\ sends = Len(resps) + 1
            /\ timer \notin {"armed", "fired"})
    /\ []((op \in Operations /\ Sleeping) =>
            /\ sends = Len(resps)
            /\ Len(sleepLog) = sends
            /\ i = sends - 1)

\* the second send is under way after the first sleep completed by the
\* timer
C18_Witness ==
    /\ op \in Operations
    /\ pc = "sending"
    /\ sends = 2
    /\ sleepLog = <<0>>
    /\ selectCase = "tick"
    /\ timer = "consumed"
    /\ resps[1].closes = 1

(***************************************************************************)
(* The sleep and its timer; termination.                                   *)
(***************************************************************************)
\* C19: a sleepContext whose timer has fired or whose context is cancelled
\* returns.  It leaves its timer neither armed nor holding a fire signal
\* nobody received: on the cancellation path it calls Stop and receives the
\* pending signal exactly when Stop reports that the timer had fired, so it
\* waits for a signal only when one is in the channel.
C19_SleepReturnsTimerReleased ==
    /\ (Sleeping /\ (timer = "fired" \/ ctxErr # "none")) ~> ~Sleeping
    /\ [](pc = "draining" => timer = "fired" /\ selectCase = "done")
    /\ [][(Sleeping /\ ~Sleeping') =>
            /\ timer' \in {"consumed", "stopped"}
            /\ (selectCase' = "done" /\ timer = "armed") => timer' = "stopped"
            /\ pc = "draining" => timer' = "consumed"]_vars
    /\ [](~Sleeping => timer \in {"none", "consumed", "stopped"})

\* the timer fired between the cancellation case being taken and Stop; Stop
\* reported it and the signal was received before the call returned
C19_Witness ==
    /\ pc = "done"
    /\ selectCase = "done"
    /\ timer = "consumed"
    /\ result = ContextError("Canceled")
    /\ sends = 2

\* C20: a call that has started returns, whatever the transport answers
\* and whenever the context is cancelled; it makes at most retryCount sends
\* and returns exactly one outcome: it has a result exactly when it has
\* returned, and the result never changes.
C20_CallReturns ==
    /\ (op \in Operations) ~> (pc = "done")
    /\ [](op \in Operations => sends <= retryCount)
    /\ [](op \in Operations => (pc = "done" <=> result # Running))
    /\ [][result # Running => result' = result]_vars
    /\ [][pc = "done" => pc' = "done"]_vars

\* a call has returned too-many-retries after using every attempt
C20_Witness ==
    /\ op \in Operations
    /\ pc = "done"
    /\ retryCount = MaxRetry
    /\ sends = retryCount
    /\ result = ErrTooManyRetries
    /\ ctxErr # "none"

\* C21: the loop sleeps after every transient response, the one of the last
\* permitted attempt included.  A call with retry count K >= 1 returns
\* too-many-retries only from the loop head, after K sends answered by
\* transient responses and K sleeps with the indices 0..K-1, the last of
\* which completed by its timer; never straight after a send.
C21_SleepAfterEveryTransient ==
    /\ [][(op \in Operations /\ retryCount >= 1
           /\ result # ErrTooManyRetries /\ result' = ErrTooManyRetries) =>
            /\ pc = "loop"
            /\ sends = retryCount
            /\ Len(resps) = retryCount /\ AllTransient
            /\ sleepLog = [k \in 1..retryCount |-> k - 1]
            /\ selectCase = "tick"
            /\ timer = "consumed"]_vars
    /\ []((op \in Operations /\ pc = "done" /\ result = ErrTooManyRetries) =>
            Len(sleepLog) = retryCount)
    /\ []((op \in Operations /\ pc \in {"loop", "sending"}) =>
            Len(sleepLog) = i /\ Len(resps) = i)

\* without any cancellation, too-many-retries was returned after one send
\* and one completed sleep
C21_Witness ==
    /\ op \in Operations
    /\ pc = "done"
    /\ retryCount = 1
    /\ ctxErr = "none"
    /\ result = ErrTooManyRetries
    /\ sends = 1
    /\ sleepLog = <<0>>
    /\ selectCase = "tick"

(***************************************************************************)
(* What the operations hand back.                                          *)
(***************************************************************************)
\* C22: when Create or Fetch returns an error, whichever it is, the
\* AccountData it returns is the zero value, also when the success body was
\* decoded in part before the decoder failed; the error is the one httpDo
\* returned, and without an error the data is what was decoded.
C22_ZeroDataOnError ==
    (op \in {"Create", "Fetch"} /\ out.returned) =>
        /\ pc = "done"
        /\ out.err = result
        /\ out.err # NilError => out.data = AccountData
        /\ out.err = NilError => out.data = dest

\* Create or Fetch returned the decode error of a success body of which one
\* field was decoded, with zero data
C22_Witness ==
    /\ op \in {"Create", "Fetch"}
    /\ out.returned
    /\ out.err = DecodeError
    /\ dest # AccountData
    /\ out.data = AccountData

\* Create or Fetch returned too-many-retries with zero data
C22_WitnessTooManyRetries ==
    /\ op \in {"Create", "Fetch"}
    /\ out.returned
    /\ out.err = ErrTooManyRetries
    /\ out.data = AccountData

(***************************************************************************)
(* Classification of the final response.                                   *)
(***************************************************************************)
\* bodies that are no JSON document, or a document whose error_message and
\* error hold numbers
MalformedErrorBodies == {"html", "truncated", "empty", "genericType"}

\* C14: a returned call whose final response is a 400, 409 or 403 with a
\* body that does not decode as the structured error returns the decoder's
\* error, not a bad-request, conflict, forbidden or generic HTTP error; a
\* final 404 or other non-success status has no decoder put on its body and
\* gives ErrNotFound or ErrHttp of the status whatever the body is.
C14_DecodeErrorPropagates ==
    (op \in Operations /\ ReturnedOnFinal) =>
        /\ (LastResp.status \in {400, 409, 403}
             /\ LastResp.body \in MalformedErrorBodies)
              => /\ result = DecodeError
                 /\ result.kind \notin {"bad_request", "conflict", "forbidden",
                                        "http"}
                 /\ LastResp.decoders = 1
        /\ LastResp.status = 404
              => result = ErrNotFound /\ LastResp.decoders = 0
        /\ LastResp.status \notin {400, 409, 403, 404, 200, 201, 204}
              => result = newErrHttp(LastResp.status) /\ LastResp.decoders = 0

\* a 403 with a body whose error field is a number has returned the decode
\* error
C14_Witness ==
    /\ op \in Operations
    /\ ReturnedOnFinal
    /\ LastResp.status = 403
    /\ LastResp.body = "genericType"
    /\ result = DecodeError

\* a 404 with a body that is no JSON has returned ErrNotFound
C14_WitnessNotFound ==
    /\ op \in Operations
    /\ ReturnedOnFinal
    /\ LastResp.status = 404
    /\ LastResp.body = "html"
    /\ result = ErrNotFound

\* no response the retry loop consumed was handed to parseError
NoTransientClassified ==
    \A k \in 1..Len(resps) :
        resps[k].status \in {429, 500, 503, 504} => resps[k].classified = 0

\* C15 as claimed: parseError is called exactly on the final responses
\* whose status is not 2xx; a final response with any 2xx status is not
\* handed to it and is not turned into an error by it; a transient response
\* is never handed to it.
C15_Original ==
    /\ op \in Operations => NoTransientClassified
    /\ (op \in Operations /\ ReturnedOnFinal) =>
          /\ LastResp.classified = (IF LastResp.status \in 200..299 THEN 0 ELSE 1)
          /\ LastResp.status \in 200..299 => result \in {NilError, DecodeError}

\* C15 amended: parseError is called exactly on the final responses whose
\* status is not 200, 201 or 204, once; a final 200, 201 or 204 is not
\* handed to it and the call returns nil or the error of decoding the
\* success body; any other 2xx status, such as 202, is handed to it and
\* becomes ErrHttp of that status; a transient response is never handed to
\* it.
C15_ClassifierOffSuccess ==
    /\ op \in Operations => NoTransientClassified
    /\ (op \in Operations /\ ReturnedOnFinal) =>
          /\ LastResp.classified =
                (IF LastResp.status \in {200, 201, 204} THEN 0 ELSE 1)
          /\ LastResp.status \in {200, 201, 204}
                => result \in {NilError, DecodeError}
          /\ (LastResp.status \in 200..299
               /\ LastResp.status \notin {200, 201, 204})
                => result = newErrHttp(LastResp.status)

\* a 202 after a retried 503 was classified and returned as ErrHttp, the
\* 503 was not classified
C15_Witness ==
    /\ op \in Operations
    /\ ReturnedOnFinal
    /\ Len(resps) = 2
    /\ resps[1].status = 503 /\ resps[1].classified = 0
    /\ LastResp.status = 202
    /\ LastResp.classified = 1
    /\ result = newErrHttp(202)

(***************************************************************************)
(* Concurrent calls.                                                       *)
(***************************************************************************)
\* what call c shows of its run
Observed(c) ==
    [i |-> loopVar[c], sends |-> calls[c].sends,
     sleepLog |-> calls[c].sleepLog, result |-> calls[c].result]

DetailFields(kind) ==
    IF kind = "forbidden" THEN {"error", "error_description"}
    ELSE {"error_message", "error_code"}

IsReturned == op = "Is" /\ pc = "done"

\* C11: for a bad-request, conflict or forbidden error e, e.Is(target) is
\* true exactly when target is of e's kind and each of target's two detail
\* fields is empty or equal to e's; a target of another kind never matches,
\* even with all fields empty, and an e with an empty field does not match a
\* target whose field is not empty.
C11_IsWildcardMatch ==
    IsReturned =>
        /\ matched =
              (/\ target.kind = recv.kind
               /\ \A f \in DetailFields(recv.kind) :
                     target[f] = "" \/ target[f] = recv[f])
        /\ target.kind # recv.kind => ~matched
        /\ (\E f \in DetailFields(recv.kind) : recv[f] = "" /\ target[f] # "")
              => ~matched

\* a call matched through a wildcard field, with the other field equal
C11_Witness ==
    /\ IsReturned
    /\ matched
    /\ recv.kind = "conflict"
    /\ target.error_code = "" /\ recv.error_code = "m1"
    /\ target.error_message = "m2"

\* a target of another kind with all fields empty was rejected
C11_WitnessOtherKind ==
    /\ IsReturned
    /\ ~matched
    /\ recv.kind = "bad_request"
    /\ target = Err("conflict")

====
